---- MODULE Spec2Model ----
(***************************************************************************)
(* Model of Cluster (src/src/main/cluster/Cluster.ts) and BasicInstance    *)
(* (src/unnamed/part_002) of ts-basic-cluster.                             *)
(*                                                                         *)
(* The program runs on a single-threaded cooperative scheduler.  Every     *)
(* action below is one run-to-completion piece of a handler: the code      *)
(* between two suspension points (an await, a promise callback, a backoff  *)
(* timer).  Pieces of different calls interleave freely.                   *)
(*                                                                         *)
(* backOff(request, options) of exponential-backoff is modelled by what    *)
(* Cluster uses of it: the request never runs in the caller's turn, a      *)
(* failed attempt increments attemptNumber, and the call gives up when the *)
(* retry predicate says no or attemptNumber reaches numOfAttempts.         *)
(*                                                                         *)
(* Under Spec, Instance.shutdown() settles successfully, at once or later, *)
(* as every Instance of the repository does; FailingShutdownSpec adds       *)
(* instances whose shutdown() rejects.                                     *)
(***************************************************************************)
EXTENDS Integers, Sequences, FiniteSets, TLC

\* Bounds of the model.
NumSubmits == 2
NumShutdownCalls == 2
MaxClusterSize == 2
MaxNumOfAttempts == 2
MaxDefaultNumOfAttempts == 1
MaxFactoryFailures == 1
MaxTaskThrows == 1

Tasks == 1..NumSubmits
Calls == 1..NumShutdownCalls

\* Messages of the errors the cluster raises.
ShuttingDownMsg == "Cannot submit new tasks because the cluster is shutting down"
ShutdownMsg == "Cannot submit new tasks because the cluster has been shutdown"
CapacityMsg == ""
FactoryErrorMsg == "instanceCreator failed"
TaskErrorMsg == "task failed"
TaskValue == "task value"

\* The error objects, written as String(error) writes them.
ShuttingDownError ==
    "UnretryableError: Cannot submit new tasks because the cluster is shutting down"
ShutdownError ==
    "UnretryableError: Cannot submit new tasks because the cluster has been shutdown"
CapacityError == "Error"
FactoryError == "Error: instanceCreator failed"
TaskError == "Error: task failed"
InUseError == "Error: instances still in use"
InstanceShutdownError == "Error: instance shutdown failed"

\* No backoffOptions argument in a call.
NoOptions == 0

\* The retry predicates a caller can put in its options, or "none".
RetryPredicates == {"none", "always", "never"}

VARIABLES
    maxInstances,           \* Cluster.maxInstances
    eagerInstances,         \* ClusterOptions.eagerInstances
    defaultBackoffOptions,  \* numOfAttempts of ClusterOptions.defaultBackoffOptions
    state,                  \* Cluster.state
    instances,              \* Cluster.instances, in insertion order
    instancesBeingCreated,  \* Cluster.instancesBeingCreated
    added,                  \* creations whose then-callback ran, finally-callback pending
    runningTask,            \* BasicInstance.runningTask of every created instance
    shutdownCount,          \* times Instance.shutdown() was invoked, per instance
    shutdownPending,        \* instances whose shutdown() promise is pending
    created,                \* number of instanceCreator invocations
    factoryFailures,        \* number of instanceCreator failures
    taskThrows,             \* number of tasks that threw synchronously
    pc,                     \* position of every submit call
    attemptNumber,          \* BackOff.attemptNumber of every submit call
    backoffOptions,         \* numOfAttempts a submit call passed, or NoOptions
    numOfAttempts,          \* numOfAttempts of the policy of every submit call
    retryPredicate,         \* retry predicate of the policy of every submit call
    inst,                   \* instance (or creation) a submit call is bound to
    taskResult,             \* value or error the task of a submit call settled with
    result,                 \* value or error a submit call settles with
    spc,                    \* position of every shutdown()/shutdownNow() call
    skind,                  \* "shutdown" or "shutdownNow", of an accepted call
    sattempt,               \* BackOff.attemptNumber of every shutdown() call
    sbackoffOptions,        \* numOfAttempts a shutdown() call passed, or NoOptions
    snum,                   \* numOfAttempts of the policy of every shutdown() call
    sretry,                 \* retry predicate of the policy of every shutdown() call
    sresult,                \* value a shutdown call returned
    exhausted,              \* the shutdown() calls whose policy was exhausted
    runningAtShutdown,      \* tasks that ran when shutdown was accepted, not yet settled
    idleAtShutdown          \* no instance was in use when shutdown() was accepted,
                            \* and its first attempt is still to come

clusterVars == <<maxInstances, eagerInstances, defaultBackoffOptions, state, instances,
                 instancesBeingCreated, added, runningTask, shutdownCount,
                 shutdownPending, created, factoryFailures, taskThrows>>
submitVars == <<pc, attemptNumber, backoffOptions, numOfAttempts, retryPredicate, inst,
                taskResult, result>>
shutdownVars == <<spc, skind, sattempt, sbackoffOptions, snum, sretry, sresult, exhausted,
                  runningAtShutdown, idleAtShutdown>>
vars == <<clusterVars, submitVars, shutdownVars>>

----------------------------------------------------------------------------
\* Helpers.

SeqToSet(s) == {s[k] : k \in 1..Len(s)}

\* BasicInstance.isFree
isFree(i) == ~runningTask[i]

\* Mutant of freeInstances: the free instances, the one added last first.
freeInstancesNewestFirst ==
    LET free == SelectSeq(instances, isFree)
    IN  [k \in 1..Len(free) |-> free[Len(free) + 1 - k]]

\* Mutant of freeInstances: the filter is missing.
freeInstancesIgnoringFlag == instances

\* [...this.instances].filter((instance) => instance.isFree())
freeInstances == SelectSeq(instances, isFree)

\* [...this.instances].filter((instance) => !instance.isFree()).length
instancesInUse == Cardinality({i \in SeqToSet(instances) : ~isFree(i)})

\* Mutant of canCreate: the creations in flight are not counted.
canCreateIgnoringInFlight == Len(instances) < maxInstances

\* Mutant of canCreate: the creations in flight may fill one slot too many.
canCreateOffByOne ==
    /\ Len(instances) < maxInstances
    /\ Cardinality(instancesBeingCreated) <= maxInstances - Len(instances)

\* The admission check of acquire.
canCreate ==
    /\ Len(instances) < maxInstances
    /\ Cardinality(instancesBeingCreated) < maxInstances - Len(instances)

\* Mutant of lifecycleError: the checks come after the look for a free
\* instance, and are skipped when there is one.
lifecycleErrorIfNoneFree ==
    IF Len(freeInstances) > 0 THEN "none"
    ELSE IF state = "shutting down" THEN ShuttingDownMsg
    ELSE IF state = "shutdown" THEN ShutdownMsg
    ELSE "none"

\* Mutant of lifecycleError: the check of 'shutting down' is missing.
lifecycleErrorAfterShutdownOnly == IF state = "shutdown" THEN ShutdownMsg ELSE "none"

\* The lifecycle checks of acquire: the message of the UnretryableError, or "none".
lifecycleError ==
    IF state = "shutting down" THEN ShuttingDownMsg
    ELSE IF state = "shutdown" THEN ShutdownMsg
    ELSE "none"

\* Mutant of shutdownRefused: only a cluster that has shut down refuses.
shutdownRefusedOnceShutdown == state = "shutdown"

\* Mutant of shutdownRefused: the state guard is missing.
shutdownNeverRefused == FALSE

\* The state guard of shutdown and shutdownNow.
shutdownRefused == state # "ready"

\* Mutant of message: the error itself is passed on.
messageKeepingError(error) == error

\* Error.message of the errors of the model.
message(error) ==
    CASE error = ShuttingDownError -> ShuttingDownMsg
      [] error = ShutdownError -> ShutdownMsg
      [] error = CapacityError -> CapacityMsg
      [] error = FactoryError -> FactoryErrorMsg
      [] error = TaskError -> TaskErrorMsg
      [] OTHER -> "undefined"

\* new UnretryableError(msg), for the two messages acquire uses.
UnretryableError(msg) == IF msg = ShuttingDownMsg THEN ShuttingDownError ELSE ShutdownError

\* Mutant of defaultParameter: the argument of the call is ignored.
defaultParameterIgnoringArgument(passed) == defaultBackoffOptions

\* The default parameter of submit and shutdown: the numOfAttempts of the
\* policy of a call that passed the given backoffOptions.
defaultParameter(passed) == IF passed = NoOptions THEN defaultBackoffOptions ELSE passed

\* The backoffOptions arguments of the calls: none, or a numOfAttempts.  A
\* numOfAttempts equal to the default's gives the policy that no argument
\* gives, and is left out.
PassedOptions ==
    {NoOptions} \cup ((1..MaxNumOfAttempts) \ {defaultBackoffOptions})

\* The retry predicates of the calls: a field of the backoffOptions argument.
retryPredicatesOf(passed) == IF passed = NoOptions THEN {"none"} ELSE RetryPredicates

\* Mutant of getBackoffOptions: the caller's predicate, when there is one, is
\* spread over the cluster's.
getBackoffOptionsKeepingRetry(callerRetry) ==
    IF callerRetry = "none" THEN "cluster" ELSE callerRetry

\* getBackoffOptions: the predicate of the cluster replaces the caller's.
getBackoffOptions(callerRetry) == "cluster"

\* The retry predicate of a policy, applied to the error of a failed attempt.
retry(predicate, error) ==
    CASE predicate = "cluster" -> error \notin {ShuttingDownError, ShutdownError}
      [] predicate = "never" -> FALSE
      [] OTHER -> TRUE

\* Mutant of attemptLimitReached: one attempt too many.
attemptLimitReachedLate(n, limit) == n >= limit

\* BackOff.attemptLimitReached after one more failed attempt.
attemptLimitReached(n, limit) == n + 1 >= limit

\* How the promise of Cluster.submit settles for the outcome r of the task.
settledAs(r) == IF r = TaskValue THEN "resolved" ELSE "rejected"

\* Calls are numbered in the order in which they are made.
inCallOrder(position, k) == IF k = 1 THEN TRUE ELSE position[k - 1] # "idle"

\* The identity of the next instance the factory makes: the first one unused.
newInstance ==
    CHOOSE c \in 1..(Cardinality(DOMAIN runningTask \cup instancesBeingCreated) + 1) :
        c \notin DOMAIN runningTask \cup instancesBeingCreated

\* The submit call awaiting creation c, if any.
waiterOf(c) == {p \in Tasks : pc[p] = "creating" /\ inst[p] = c}

----------------------------------------------------------------------------
\* Constructor.

\* Mutant of createInitialInstances: one creation short.
createInitialInstancesOneShort(eager, max) == IF eager THEN 1..(max - 1) ELSE {}

\* createInitialInstances: eager mode starts maxInstances creations.
createInitialInstances(eager, max) == IF eager THEN 1..max ELSE {}

Init ==
    /\ maxInstances \in 1..MaxClusterSize
    /\ eagerInstances \in BOOLEAN
    /\ defaultBackoffOptions \in 1..MaxDefaultNumOfAttempts
    /\ state = "ready"
    /\ instances = <<>>
    /\ instancesBeingCreated = createInitialInstances(eagerInstances, maxInstances)
    /\ added = {}
    /\ runningTask = <<>>
    /\ shutdownCount = <<>>
    /\ shutdownPending = {}
    /\ created = Cardinality(instancesBeingCreated)
    /\ factoryFailures = 0
    /\ taskThrows = 0
    /\ pc = [p \in Tasks |-> "idle"]
    /\ attemptNumber = [p \in Tasks |-> 0]
    /\ backoffOptions = [p \in Tasks |-> NoOptions]
    /\ numOfAttempts = [p \in Tasks |-> 0]
    /\ retryPredicate = [p \in Tasks |-> "none"]
    /\ inst = [p \in Tasks |-> 0]
    /\ taskResult = [p \in Tasks |-> "none"]
    /\ result = [p \in Tasks |-> "none"]
    /\ spc = [s \in Calls |-> "idle"]
    /\ skind = [s \in Calls |-> "none"]
    /\ sattempt = [s \in Calls |-> 0]
    /\ sbackoffOptions = [s \in Calls |-> NoOptions]
    /\ snum = [s \in Calls |-> 0]
    /\ sretry = [s \in Calls |-> "none"]
    /\ sresult = [s \in Calls |-> "none"]
    /\ exhausted = {}
    /\ runningAtShutdown = {}
    /\ idleAtShutdown = FALSE

----------------------------------------------------------------------------
\* submit and acquire.

\* Cluster.submit: starts acquire; the first attempt runs in a later turn.
Submit(p, passed, callerRetry) ==
    /\ pc[p] = "idle"
    /\ inCallOrder(pc, p)
    /\ pc' = [pc EXCEPT ![p] = "waiting"]
    /\ backoffOptions' = [backoffOptions EXCEPT ![p] = passed]
    /\ numOfAttempts' = [numOfAttempts EXCEPT ![p] = defaultParameter(passed)]
    /\ retryPredicate' = [retryPredicate EXCEPT ![p] = getBackoffOptions(callerRetry)]
    /\ UNCHANGED <<attemptNumber, inst, taskResult, result, clusterVars, shutdownVars>>

\* The promise Cluster.submit returned settles; the locals of the call die.
finish(p, outcome, r) ==
    /\ pc' = [pc EXCEPT ![p] = outcome]
    /\ result' = [result EXCEPT ![p] = r]
    /\ attemptNumber' = [attemptNumber EXCEPT ![p] = 0]
    /\ backoffOptions' = [backoffOptions EXCEPT ![p] = NoOptions]
    /\ numOfAttempts' = [numOfAttempts EXCEPT ![p] = 0]
    /\ retryPredicate' = [retryPredicate EXCEPT ![p] = "none"]
    /\ inst' = [inst EXCEPT ![p] = 0]

\* Mutant of retryOrReject: a failed attempt is retried without being counted.
retryOrRejectNotCounting(p, error) ==
    /\ IF ~retry(retryPredicate[p], error)
       THEN finish(p, "rejected", message(error))
       ELSE /\ pc' = [pc EXCEPT ![p] = "waiting"]
            /\ inst' = [inst EXCEPT ![p] = 0]
            /\ UNCHANGED <<attemptNumber, result, backoffOptions, numOfAttempts,
                           retryPredicate>>
    /\ UNCHANGED taskResult

\* The catch of BackOff.execute followed by the catch of acquire, for an
\* attempt of p that failed with the given error.
retryOrReject(p, error) ==
    /\ IF \/ ~retry(retryPredicate[p], error)
          \/ attemptLimitReached(attemptNumber[p], numOfAttempts[p])
       THEN finish(p, "rejected", message(error))
       ELSE /\ pc' = [pc EXCEPT ![p] = "waiting"]
            /\ attemptNumber' = [attemptNumber EXCEPT ![p] = @ + 1]
            /\ inst' = [inst EXCEPT ![p] = 0]
            /\ UNCHANGED <<result, backoffOptions, numOfAttempts, retryPredicate>>
    /\ UNCHANGED taskResult

\* Mutant of createNewInstance: the creation is registered in a later turn.
createNewInstanceUnregistered ==
    /\ created' = created + 1
    /\ UNCHANGED instancesBeingCreated

\* Cluster.createNewInstance: the factory is called and the creation is
\* registered in instancesBeingCreated, in the turn of the caller.
createNewInstance ==
    /\ created' = created + 1
    /\ instancesBeingCreated' = instancesBeingCreated \cup {newInstance}

\* Mutant of Attempt: the creation is started before the admission check, and
\* stays registered when the check fails.
AttemptCreatingBeforeCheck(p) ==
    /\ pc[p] = "waiting"
    /\ IF lifecycleError # "none"
       THEN /\ retryOrReject(p, UnretryableError(lifecycleError))
            /\ UNCHANGED <<instancesBeingCreated, created>>
       ELSE IF Len(freeInstances) = 0
       THEN IF canCreate
            THEN /\ createNewInstance
                 /\ inst' = [inst EXCEPT ![p] = newInstance]
                 /\ pc' = [pc EXCEPT ![p] = "creating"]
                 /\ UNCHANGED <<attemptNumber, backoffOptions, numOfAttempts,
                                retryPredicate, taskResult, result>>
            ELSE /\ retryOrReject(p, CapacityError)
                 /\ createNewInstance
       ELSE /\ inst' = [inst EXCEPT ![p] = freeInstances[1]]
            /\ pc' = [pc EXCEPT ![p] = "acquired"]
            /\ UNCHANGED <<attemptNumber, backoffOptions, numOfAttempts, retryPredicate,
                           taskResult, result, instancesBeingCreated, created>>
    /\ UNCHANGED <<maxInstances, eagerInstances, defaultBackoffOptions, state, instances,
                   added, runningTask, shutdownCount, shutdownPending, factoryFailures,
                   taskThrows, shutdownVars>>

\* One run of the request of acquire, up to its return, throw or await.
Attempt(p) ==
    /\ pc[p] = "waiting"
    /\ IF lifecycleError # "none"
       THEN /\ retryOrReject(p, UnretryableError(lifecycleError))
            /\ UNCHANGED <<instancesBeingCreated, created>>
       ELSE IF Len(freeInstances) = 0
       THEN IF canCreate
            THEN /\ createNewInstance
                 /\ inst' = [inst EXCEPT ![p] = newInstance]
                 /\ pc' = [pc EXCEPT ![p] = "creating"]
                 /\ UNCHANGED <<attemptNumber, backoffOptions, numOfAttempts,
                                retryPredicate, taskResult, result>>
            ELSE /\ retryOrReject(p, CapacityError)
                 /\ UNCHANGED <<instancesBeingCreated, created>>
       ELSE /\ inst' = [inst EXCEPT ![p] = freeInstances[1]]
            /\ pc' = [pc EXCEPT ![p] = "acquired"]
            /\ UNCHANGED <<attemptNumber, backoffOptions, numOfAttempts, retryPredicate,
                           taskResult, result, instancesBeingCreated, created>>
    /\ UNCHANGED <<maxInstances, eagerInstances, defaultBackoffOptions, state, instances,
                   added, runningTask, shutdownCount, shutdownPending, factoryFailures,
                   taskThrows, shutdownVars>>

\* createNewInstance, then-callback: the factory resolved with instance c.
CreationThen(c) ==
    /\ c \in instancesBeingCreated \ added
    /\ instances' = Append(instances, c)
    /\ runningTask' = runningTask @@ (c :> FALSE)
    /\ shutdownCount' = shutdownCount @@ (c :> 0)
    /\ added' = added \cup {c}
    /\ UNCHANGED <<maxInstances, eagerInstances, defaultBackoffOptions, state,
                   instancesBeingCreated, shutdownPending, created, factoryFailures,
                   taskThrows, submitVars, shutdownVars>>

\* createNewInstance, finally-callback after success; the awaiting attempt
\* then returns the instance.
CreationFinally(c) ==
    /\ c \in added
    /\ instancesBeingCreated' = instancesBeingCreated \ {c}
    /\ added' = added \ {c}
    /\ pc' = [p \in Tasks |-> IF p \in waiterOf(c) THEN "acquired" ELSE pc[p]]
    /\ UNCHANGED <<maxInstances, eagerInstances, defaultBackoffOptions, state,
                   instances, runningTask, shutdownCount, shutdownPending, created,
                   factoryFailures, taskThrows, attemptNumber, backoffOptions,
                   numOfAttempts, retryPredicate, inst, taskResult, result,
                   shutdownVars>>

\* Mutant of CreationFail: the failed creation stays in instancesBeingCreated.
CreationFailKeepingSlot(c) ==
    /\ c \in instancesBeingCreated \ added
    /\ factoryFailures < MaxFactoryFailures
    /\ factoryFailures' = factoryFailures + 1
    /\ UNCHANGED instancesBeingCreated
    /\ IF waiterOf(c) = {}
       THEN UNCHANGED submitVars
       ELSE retryOrReject(CHOOSE p \in waiterOf(c) : TRUE, FactoryError)
    /\ UNCHANGED <<maxInstances, eagerInstances, defaultBackoffOptions, state,
                   instances, added, runningTask, shutdownCount, shutdownPending,
                   created, taskThrows, shutdownVars>>

\* createNewInstance, finally-callback after the factory failed; the awaiting
\* attempt throws the factory's error.
CreationFail(c) ==
    /\ c \in instancesBeingCreated \ added
    /\ factoryFailures < MaxFactoryFailures
    /\ factoryFailures' = factoryFailures + 1
    /\ instancesBeingCreated' = instancesBeingCreated \ {c}
    /\ IF waiterOf(c) = {}
       THEN UNCHANGED submitVars
       ELSE retryOrReject(CHOOSE p \in waiterOf(c) : TRUE, FactoryError)
    /\ UNCHANGED <<maxInstances, eagerInstances, defaultBackoffOptions, state,
                   instances, added, runningTask, shutdownCount, shutdownPending,
                   created, taskThrows, shutdownVars>>

\* BasicInstance.submit: lock, then the call of the task, which starts its
\* body or throws before returning a promise (release is then never reached).
Lock(p, throws) ==
    /\ pc[p] = "acquired"
    /\ runningTask' = [runningTask EXCEPT ![inst[p]] = TRUE]
    /\ IF throws
       THEN /\ taskThrows < MaxTaskThrows
            /\ taskThrows' = taskThrows + 1
            /\ taskResult' = [taskResult EXCEPT ![p] = TaskError]
            /\ finish(p, "rejected", TaskError)
       ELSE /\ pc' = [pc EXCEPT ![p] = "running"]
            /\ UNCHANGED <<taskThrows, taskResult, result, attemptNumber, backoffOptions,
                           numOfAttempts, retryPredicate, inst>>
    /\ UNCHANGED <<maxInstances, eagerInstances, defaultBackoffOptions, state,
                   instances, instancesBeingCreated, added, shutdownCount,
                   shutdownPending, created, factoryFailures, shutdownVars>>

\* The promise of the task body settles, with a value or an error.
TaskSettle(p, r) ==
    /\ pc[p] = "running"
    /\ pc' = [pc EXCEPT ![p] = "settled"]
    /\ taskResult' = [taskResult EXCEPT ![p] = r]
    /\ result' = [result EXCEPT ![p] = r]
    /\ runningAtShutdown' = runningAtShutdown \ {p}
    /\ UNCHANGED <<attemptNumber, backoffOptions, numOfAttempts, retryPredicate, inst,
                   clusterVars, spc, skind, sattempt, sbackoffOptions, snum, sretry,
                   sresult, exhausted, idleAtShutdown>>

\* Mutant of Release: the value of the task is dropped.
ReleaseDroppingResult(p) ==
    /\ pc[p] = "settled"
    /\ runningTask' = [runningTask EXCEPT ![inst[p]] = FALSE]
    /\ finish(p, settledAs(result[p]), "undefined")
    /\ UNCHANGED <<maxInstances, eagerInstances, defaultBackoffOptions, state, instances,
                   instancesBeingCreated, added, shutdownCount, shutdownPending, created,
                   factoryFailures, taskThrows, taskResult, shutdownVars>>

\* Mutant of Release: the flag is cleared only while the cluster is 'ready'.
ReleaseWhileReady(p) ==
    /\ pc[p] = "settled"
    /\ runningTask' = [runningTask EXCEPT ![inst[p]] = (state # "ready")]
    /\ finish(p, settledAs(result[p]), result[p])
    /\ UNCHANGED <<maxInstances, eagerInstances, defaultBackoffOptions, state, instances,
                   instancesBeingCreated, added, shutdownCount, shutdownPending, created,
                   factoryFailures, taskThrows, taskResult, shutdownVars>>

\* Mutant of Release: the instance is shut down and dropped after its task.
ReleaseDestroyingInstance(p) ==
    /\ pc[p] = "settled"
    /\ runningTask' = [runningTask EXCEPT ![inst[p]] = FALSE]
    /\ instances' = SelectSeq(instances, LAMBDA i : i # inst[p])
    /\ shutdownCount' = [shutdownCount EXCEPT ![inst[p]] = @ + 1]
    /\ finish(p, settledAs(result[p]), result[p])
    /\ UNCHANGED <<maxInstances, eagerInstances, defaultBackoffOptions, state,
                   instancesBeingCreated, added, shutdownPending, created,
                   factoryFailures, taskThrows, taskResult, shutdownVars>>

\* BasicInstance.release, the finally-callback of the task's promise, and the
\* settling of the promise Cluster.submit returned, which follows it.
Release(p) ==
    /\ pc[p] = "settled"
    /\ runningTask' = [runningTask EXCEPT ![inst[p]] = FALSE]
    /\ finish(p, settledAs(result[p]), result[p])
    /\ UNCHANGED <<maxInstances, eagerInstances, defaultBackoffOptions, state, instances,
                   instancesBeingCreated, added, shutdownCount, shutdownPending, created,
                   factoryFailures, taskThrows, taskResult, shutdownVars>>

----------------------------------------------------------------------------
\* shutdown and shutdownNow.

\* Mutant of performShutdown: the instances in use are skipped.
performShutdownOfFreeInstances ==
    /\ shutdownCount' = [i \in DOMAIN shutdownCount |->
                            IF i \in SeqToSet(freeInstances)
                            THEN shutdownCount[i] + 1 ELSE shutdownCount[i]]
    /\ shutdownPending' = shutdownPending \cup SeqToSet(freeInstances)

\* Cluster.performShutdown, up to Promise.all: shutdown() is invoked on every
\* instance of the live set.
performShutdown ==
    /\ shutdownCount' = [i \in DOMAIN shutdownCount |->
                            IF i \in SeqToSet(instances)
                            THEN shutdownCount[i] + 1 ELSE shutdownCount[i]]
    /\ shutdownPending' = shutdownPending \cup SeqToSet(instances)

\* Mutant of refuse: the refused call resolves true.
refuseResolvingTrue(s) ==
    /\ spc' = [spc EXCEPT ![s] = "returned"]
    /\ sresult' = [sresult EXCEPT ![s] = "true"]

\* A call that found the state not 'ready' resolves false.
refuse(s) ==
    /\ spc' = [spc EXCEPT ![s] = "returned"]
    /\ sresult' = [sresult EXCEPT ![s] = "false"]

\* Cluster.shutdown, up to the call of backOff.
Shutdown(s, passed, callerRetry) ==
    /\ spc[s] = "idle"
    /\ inCallOrder(spc, s)
    /\ IF shutdownRefused
       THEN /\ refuse(s)
            /\ UNCHANGED <<state, skind, sbackoffOptions, snum, sretry,
                           runningAtShutdown, idleAtShutdown>>
       ELSE /\ state' = "shutting down"
            /\ spc' = [spc EXCEPT ![s] = "waiting"]
            /\ skind' = [skind EXCEPT ![s] = "shutdown"]
            /\ sbackoffOptions' = [sbackoffOptions EXCEPT ![s] = passed]
            /\ snum' = [snum EXCEPT ![s] = defaultParameter(passed)]
            /\ sretry' = [sretry EXCEPT ![s] = getBackoffOptions(callerRetry)]
            /\ runningAtShutdown' = {p \in Tasks : pc[p] = "running"}
            /\ idleAtShutdown' = (instancesInUse = 0)
            /\ UNCHANGED sresult
    /\ UNCHANGED <<maxInstances, eagerInstances, defaultBackoffOptions, instances,
                   instancesBeingCreated, added, runningTask, shutdownCount,
                   shutdownPending, created, factoryFailures, taskThrows, submitVars,
                   sattempt, exhausted>>

\* One run of the request of shutdown's backOff.
ShutdownAttempt(s) ==
    /\ spc[s] = "waiting"
    /\ idleAtShutdown' = FALSE
    /\ IF instancesInUse > 0
       THEN /\ IF \/ ~retry(sretry[s], InUseError)
                     \/ attemptLimitReached(sattempt[s], snum[s])
               THEN /\ spc' = [spc EXCEPT ![s] = "fallback"]
                    /\ exhausted' = exhausted \cup {s}
                    /\ sattempt' = [sattempt EXCEPT ![s] = 0]
                    /\ sbackoffOptions' = [sbackoffOptions EXCEPT ![s] = NoOptions]
                    /\ snum' = [snum EXCEPT ![s] = 0]
                    /\ sretry' = [sretry EXCEPT ![s] = "none"]
               ELSE /\ sattempt' = [sattempt EXCEPT ![s] = @ + 1]
                    /\ UNCHANGED <<spc, exhausted, sbackoffOptions, snum, sretry>>
            /\ UNCHANGED <<shutdownCount, shutdownPending>>
       ELSE /\ performShutdown
            /\ spc' = [spc EXCEPT ![s] = "performing"]
            /\ UNCHANGED <<sattempt, sbackoffOptions, snum, sretry, exhausted>>
    /\ UNCHANGED <<maxInstances, eagerInstances, defaultBackoffOptions, state,
                   instances, instancesBeingCreated, added, runningTask, created,
                   factoryFailures, taskThrows, submitVars, skind, sresult,
                   runningAtShutdown>>

\* The catch-callback of shutdown: forceful shutdown after the policy gave up.
ShutdownFallback(s) ==
    /\ spc[s] = "fallback"
    /\ performShutdown
    /\ spc' = [spc EXCEPT ![s] = "performing"]
    /\ UNCHANGED <<maxInstances, eagerInstances, defaultBackoffOptions, state,
                   instances, instancesBeingCreated, added, runningTask, created,
                   factoryFailures, taskThrows, submitVars, skind, sattempt,
                   sbackoffOptions, snum, sretry, sresult, exhausted,
                   runningAtShutdown, idleAtShutdown>>

\* Cluster.shutdownNow, up to the await of performShutdown.
ShutdownNow(s) ==
    /\ spc[s] = "idle"
    /\ inCallOrder(spc, s)
    /\ IF shutdownRefused
       THEN /\ refuse(s)
            /\ UNCHANGED <<state, skind, runningAtShutdown, shutdownCount,
                           shutdownPending>>
       ELSE /\ state' = "shutting down"
            /\ performShutdown
            /\ spc' = [spc EXCEPT ![s] = "performing"]
            /\ skind' = [skind EXCEPT ![s] = "shutdownNow"]
            /\ runningAtShutdown' = {p \in Tasks : pc[p] = "running"}
            /\ UNCHANGED sresult
    /\ UNCHANGED <<maxInstances, eagerInstances, defaultBackoffOptions, instances,
                   instancesBeingCreated, added, runningTask, created, factoryFailures,
                   taskThrows, submitVars, sattempt, sbackoffOptions, snum, sretry,
                   exhausted, idleAtShutdown>>

\* The promise of one instance's shutdown() settles.
InstanceShutdownSettle(i) ==
    /\ i \in shutdownPending
    /\ shutdownPending' = shutdownPending \ {i}
    /\ UNCHANGED <<maxInstances, eagerInstances, defaultBackoffOptions, state,
                   instances, instancesBeingCreated, added, runningTask, shutdownCount,
                   created, factoryFailures, taskThrows, submitVars, shutdownVars>>

\* The promise of one instance's shutdown() rejects.  Promise.all of the
\* performShutdown under way, if any, rejects at once: inside the request of
\* backOff the attempt has failed and is retried or given up for the
\* catch-callback; in the catch-callback and in shutdownNow the call rejects,
\* and the state stays 'shutting down'.
InstanceShutdownFail(i) ==
    /\ i \in shutdownPending
    /\ shutdownPending' = shutdownPending \ {i}
    /\ LET performing == {s \in Calls : spc[s] = "performing"}
           s == CHOOSE c \in performing : TRUE
       IN  IF performing = {}
           THEN UNCHANGED shutdownVars
           ELSE IF skind[s] = "shutdown" /\ s \notin exhausted
           THEN IF \/ ~retry(sretry[s], InstanceShutdownError)
                   \/ attemptLimitReached(sattempt[s], snum[s])
                THEN /\ spc' = [spc EXCEPT ![s] = "fallback"]
                     /\ exhausted' = exhausted \cup {s}
                     /\ sattempt' = [sattempt EXCEPT ![s] = 0]
                     /\ sbackoffOptions' = [sbackoffOptions EXCEPT ![s] = NoOptions]
                     /\ snum' = [snum EXCEPT ![s] = 0]
                     /\ sretry' = [sretry EXCEPT ![s] = "none"]
                     /\ UNCHANGED <<skind, sresult, runningAtShutdown, idleAtShutdown>>
                ELSE /\ spc' = [spc EXCEPT ![s] = "waiting"]
                     /\ sattempt' = [sattempt EXCEPT ![s] = @ + 1]
                     /\ UNCHANGED <<skind, sbackoffOptions, snum, sretry, sresult,
                                    exhausted, runningAtShutdown, idleAtShutdown>>
           ELSE /\ spc' = [spc EXCEPT ![s] = "returned"]
                /\ sresult' = [sresult EXCEPT ![s] = "rejected"]
                /\ UNCHANGED <<skind, sattempt, sbackoffOptions, snum, sretry,
                               exhausted, runningAtShutdown, idleAtShutdown>>
    /\ UNCHANGED <<maxInstances, eagerInstances, defaultBackoffOptions, state,
                   instances, instancesBeingCreated, added, runningTask, shutdownCount,
                   created, factoryFailures, taskThrows, submitVars>>

\* Mutant of Terminate: the instance shutdowns are not awaited.
TerminateEarly(s) ==
    /\ spc[s] = "performing"
    /\ state' = "shutdown"
    /\ spc' = [spc EXCEPT ![s] = "returned"]
    /\ sresult' = [sresult EXCEPT ![s] = "true"]
    /\ sattempt' = [sattempt EXCEPT ![s] = 0]
    /\ sbackoffOptions' = [sbackoffOptions EXCEPT ![s] = NoOptions]
    /\ snum' = [snum EXCEPT ![s] = 0]
    /\ sretry' = [sretry EXCEPT ![s] = "none"]
    /\ UNCHANGED <<maxInstances, eagerInstances, defaultBackoffOptions, instances,
                   instancesBeingCreated, added, runningTask, shutdownCount,
                   shutdownPending, created, factoryFailures, taskThrows, submitVars,
                   skind, exhausted, runningAtShutdown, idleAtShutdown>>

\* The then-callbacks after Promise.all: the state becomes 'shutdown' and the
\* call resolves true.
Terminate(s) ==
    /\ spc[s] = "performing"
    /\ shutdownPending = {}
    /\ state' = "shutdown"
    /\ spc' = [spc EXCEPT ![s] = "returned"]
    /\ sresult' = [sresult EXCEPT ![s] = "true"]
    /\ sattempt' = [sattempt EXCEPT ![s] = 0]
    /\ sbackoffOptions' = [sbackoffOptions EXCEPT ![s] = NoOptions]
    /\ snum' = [snum EXCEPT ![s] = 0]
    /\ sretry' = [sretry EXCEPT ![s] = "none"]
    /\ UNCHANGED <<maxInstances, eagerInstances, defaultBackoffOptions, instances,
                   instancesBeingCreated, added, runningTask, shutdownCount,
                   shutdownPending, created, factoryFailures, taskThrows, submitVars,
                   skind, exhausted, runningAtShutdown, idleAtShutdown>>

----------------------------------------------------------------------------

Next ==
    \/ \E p \in Tasks, passed \in PassedOptions :
            \E callerRetry \in retryPredicatesOf(passed) : Submit(p, passed, callerRetry)
    \/ \E p \in Tasks : Attempt(p)
    \/ \E c \in instancesBeingCreated : CreationThen(c)
    \/ \E c \in instancesBeingCreated : CreationFinally(c)
    \/ \E c \in instancesBeingCreated : CreationFail(c)
    \/ \E p \in Tasks, throws \in BOOLEAN : Lock(p, throws)
    \/ \E p \in Tasks, r \in {TaskValue, TaskError} : TaskSettle(p, r)
    \/ \E p \in Tasks : Release(p)
    \/ \E s \in Calls, passed \in PassedOptions :
            \E callerRetry \in retryPredicatesOf(passed) : Shutdown(s, passed, callerRetry)
    \/ \E s \in Calls : ShutdownAttempt(s)
    \/ \E s \in Calls : ShutdownFallback(s)
    \/ \E s \in Calls : ShutdownNow(s)
    \/ \E i \in shutdownPending : InstanceShutdownSettle(i)
    \/ \E s \in Calls : Terminate(s)

Spec == Init /\ [][Next]_vars

\* The scheduler runs every pending callback and timer, and the promises of
\* the factory and of the tasks settle; the calls of the client are under no
\* obligation.
Fairness ==
    /\ \A p \in Tasks :
        /\ WF_vars(Attempt(p))
        /\ WF_vars(\E throws \in BOOLEAN : Lock(p, throws))
        /\ WF_vars(\E r \in {TaskValue, TaskError} : TaskSettle(p, r))
        /\ WF_vars(Release(p))
    /\ \A c \in 1..MaxClusterSize :
        /\ WF_vars(CreationThen(c) \/ CreationFail(c))
        /\ WF_vars(CreationFinally(c))

\* The cluster under one shutdown() call with the default policy, with task
\* functions that throw synchronously or return a promise that resolves.
FairNext ==
    \/ \E p \in Tasks, passed \in PassedOptions :
            \E callerRetry \in retryPredicatesOf(passed) : Submit(p, passed, callerRetry)
    \/ \E p \in Tasks : Attempt(p)
    \/ \E c \in instancesBeingCreated : CreationThen(c)
    \/ \E c \in instancesBeingCreated : CreationFinally(c)
    \/ \E c \in instancesBeingCreated : CreationFail(c)
    \/ \E p \in Tasks, throws \in BOOLEAN : Lock(p, throws)
    \/ \E p \in Tasks : TaskSettle(p, TaskValue)
    \/ \E p \in Tasks : Release(p)
    \/ Shutdown(1, NoOptions, "none")
    \/ ShutdownAttempt(1)
    \/ ShutdownFallback(1)
    \/ \E i \in shutdownPending : InstanceShutdownSettle(i)
    \/ Terminate(1)

FairSpec == Init /\ [][FairNext]_vars /\ Fairness

\* The cluster with instances whose shutdown() may reject, under one
\* shutdown()/shutdownNow() call, a factory that does not fail and tasks that
\* return a value.
FailingShutdownNext ==
    \/ \E p \in Tasks, passed \in PassedOptions :
            \E callerRetry \in retryPredicatesOf(passed) : Submit(p, passed, callerRetry)
    \/ \E p \in Tasks : Attempt(p)
    \/ \E c \in instancesBeingCreated : CreationThen(c)
    \/ \E c \in instancesBeingCreated : CreationFinally(c)
    \/ \E p \in Tasks : Lock(p, FALSE)
    \/ \E p \in Tasks : TaskSettle(p, TaskValue)
    \/ \E p \in Tasks : Release(p)
    \/ \E passed \in PassedOptions :
            \E callerRetry \in retryPredicatesOf(passed) : Shutdown(1, passed, callerRetry)
    \/ ShutdownAttempt(1)
    \/ ShutdownFallback(1)
    \/ ShutdownNow(1)
    \/ \E i \in shutdownPending : InstanceShutdownSettle(i)
    \/ \E i \in shutdownPending : InstanceShutdownFail(i)
    \/ Terminate(1)

FailingShutdownSpec == Init /\ [][FailingShutdownNext]_vars

----------------------------------------------------------------------------
\* Properties.

\* The submit calls whose task body has started and has not settled.
running == {p \in Tasks : pc[p] = "running"}

\* p made an acquisition attempt in this step.
attempted(p) ==
    /\ pc[p] = "waiting"
    /\ pc'[p] # "waiting" \/ attemptNumber'[p] # attemptNumber[p]

\* C1: the live set never holds more than maxInstances instances, and while
\* the factory has not failed it has been invoked at most maxInstances times.
C1_LiveWithinMaximum ==
    /\ Len(instances) <= maxInstances
    /\ factoryFailures = 0 => created <= maxInstances

\* C1 witness: a lazy cluster is full, every slot came from one factory
\* call, and a submission has been turned away for lack of capacity.
C1_Witness ==
    /\ ~eagerInstances
    /\ factoryFailures = 0
    /\ Len(instances) = maxInstances
    /\ created = maxInstances
    /\ \E p \in Tasks : pc[p] = "waiting" /\ attemptNumber[p] > 0

\* C2 (as claimed): no two tasks execute against the same instance.
C2_OneTaskPerInstance ==
    \A p, q \in running : p # q => inst[p] # inst[q]

\* C3 (as claimed): at most maxInstances task bodies have started and not
\* settled.
C3_RunningWithinMaximum == Cardinality(running) <= maxInstances

\* C4 (as claimed): live instances plus creations in flight never exceed
\* maxInstances.
C4_LivePlusInFlight ==
    Len(instances) + Cardinality(instancesBeingCreated) <= maxInstances

\* C4 (amended): an instance is counted twice between the then-callback that
\* adds it to the live set and the finally-callback that removes its creation;
\* live instances plus the creations that have not added their instance never
\* exceed maxInstances.
C4_LivePlusUnsettled ==
    /\ Len(instances) + Cardinality(instancesBeingCreated \ added) <= maxInstances
    /\ added \subseteq SeqToSet(instances) \cap instancesBeingCreated

\* C4 witness: a creation settles on a full cluster, its instance is in both
\* sets.
C4_Witness ==
    /\ added # {}
    /\ Len(instances) + Cardinality(instancesBeingCreated) > maxInstances

\* C5: the state starts at 'ready' and changes only from 'ready' to
\* 'shutting down', in the step of a shutdown()/shutdownNow() call that is
\* accepted, and from 'shutting down' to 'shutdown', in the step that follows
\* the settling of all instance shutdowns.
C5_LifecycleOneWay ==
    /\ state = "ready"
    /\ [][state' # state =>
            \/ /\ state = "ready"
               /\ state' = "shutting down"
               /\ \E s \in Calls : spc[s] = "idle" /\ spc'[s] \in {"waiting", "performing"}
            \/ /\ state = "shutting down"
               /\ state' = "shutdown"
               /\ shutdownPending = {}
               /\ \E s \in Calls : spc[s] = "performing" /\ spc'[s] = "returned"]_vars

\* C5 witness: the cluster went through the three states while a task ran.
C5_Witness ==
    /\ state = "shutdown"
    /\ \E p \in Tasks : pc[p] = "resolved"
    /\ \E s \in Calls : sresult[s] = "false"

\* C6: an acquisition attempt that runs while the state is 'shutting down' or
\* 'shutdown' rejects the submit call with the message of that state, and
\* creates nothing, locks nothing and runs nothing.
C6_RejectedWhenNotReady ==
    [][\A p \in Tasks : attempted(p) /\ state # "ready" =>
            /\ pc'[p] = "rejected"
            /\ result'[p] = (IF state = "shutting down" THEN ShuttingDownMsg
                             ELSE ShutdownMsg)
            /\ running' \subseteq running
            /\ UNCHANGED <<instances, instancesBeingCreated, created, runningTask>>]_vars

\* C6 witness: one call was rejected while shutting down, one after shutdown.
C6_Witness ==
    \E p, q \in Tasks :
        /\ pc[p] = "rejected" /\ result[p] = ShuttingDownMsg
        /\ pc[q] = "rejected" /\ result[q] = ShutdownMsg

\* C7: the first shutdown()/shutdownNow() call never returns false, returns
\* true only when the state is 'shutdown', and every later call has returned
\* false, whatever the first call has reached.
C7_TrueThenFalse ==
    \A s \in Calls :
        IF s = 1
        THEN /\ sresult[s] \in {"none", "true"}
             /\ sresult[s] = "true" => state = "shutdown"
        ELSE /\ sresult[s] \in {"none", "false"}
             /\ spc[s] # "idle" => sresult[s] = "false" /\ skind[s] = "none"

\* C7 witness: a later call returned false before the first, graceful, call
\* had finished.
C7_Witness ==
    /\ NumShutdownCalls >= 2
    /\ skind[1] = "shutdown"
    /\ spc[1] = "waiting"
    /\ \E s \in Calls : sresult[s] = "false"

\* C8 (as claimed): when a shutdown() whose policy was not exhausted has
\* resolved true, every task that ran when it was called has settled.
C8_GracefulAfterTasks ==
    \A s \in Calls :
        skind[s] = "shutdown" /\ s \notin exhausted /\ sresult[s] = "true"
            => runningAtShutdown = {}

\* C9: a shutdown() whose policy is exhausted goes on to invoke shutdown on
\* every live instance, whether in use or not, and then only resolves true,
\* with the state 'shutdown'.
C9_ExhaustedShutdownForces ==
    /\ [][\A s \in Calls : spc[s] = "fallback" /\ spc'[s] # "fallback" =>
            /\ spc'[s] = "performing"
            /\ \A i \in SeqToSet(instances) : shutdownCount'[i] = shutdownCount[i] + 1]_vars
    /\ [](\A s \in exhausted :
            /\ spc[s] \in {"fallback", "performing", "returned"}
            /\ spc[s] = "returned" => sresult[s] = "true" /\ state = "shutdown")

\* C9 witness: the call resolved true after exhaustion while a task that ran
\* when it was called still runs.
C9_Witness ==
    \E s \in exhausted :
        /\ sresult[s] = "true"
        /\ \E p \in runningAtShutdown : pc[p] = "running"

\* C10: an accepted shutdownNow() invokes shutdown on every live instance in
\* its own step and leaves the tasks alone; it resolves true only with the
\* state 'shutdown'; a task that settles afterwards has its flag cleared, and
\* the state 'shutdown' is never left.
C10_ShutdownNowLeavesTasks ==
    /\ [][\A s \in Calls : spc[s] = "idle" /\ skind'[s] = "shutdownNow" =>
            /\ \A i \in SeqToSet(instances) : shutdownCount'[i] = shutdownCount[i] + 1
            /\ UNCHANGED <<pc, runningTask, instances>>]_vars
    /\ [][\A p \in Tasks : pc[p] = "settled" /\ pc'[p] # "settled" =>
            /\ ~runningTask'[inst[p]]
            /\ pc'[p] = settledAs(result[p])
            /\ state' = state]_vars
    /\ [][state = "shutdown" => state' = "shutdown"]_vars
    /\ [](\A s \in Calls : skind[s] = "shutdownNow" =>
            /\ sresult[s] \in {"none", "true"}
            /\ sresult[s] = "true" => state = "shutdown")

\* C10 witness: shutdownNow() resolved true while a task that ran when it was
\* called still runs on its instance, which has been shut down.
C10_Witness ==
    \E s \in Calls :
        /\ skind[s] = "shutdownNow"
        /\ sresult[s] = "true"
        /\ \E p \in runningAtShutdown :
            pc[p] = "running" /\ runningTask[inst[p]] /\ shutdownCount[inst[p]] = 1

\* C11 (as claimed): when a shutdown()/shutdownNow() call has resolved true,
\* shutdown has been invoked exactly once on every instance of the live set.
C11_ShutdownOncePerInstance ==
    (\E s \in Calls : sresult[s] = "true") =>
        \A i \in SeqToSet(instances) : shutdownCount[i] = 1

\* C12 (as claimed): an instance is busy for as long as a task runs against
\* it, and whatever the outcome of the task (a value, a rejection, a throw),
\* its flag is cleared in the step that settles the submit call.
C12_ReleasedOnEveryOutcome ==
    /\ [](\A p \in running : runningTask[inst[p]])
    /\ [][\A p \in Tasks :
            pc[p] \in {"acquired", "settled"} /\ pc'[p] \in {"resolved", "rejected"}
                => ~runningTask'[inst[p]]]_vars

\* C13: a submit call whose task returned a value resolves, in the step that
\* follows the settling of the task, with that very value; no call resolves
\* with anything else.
C13_TaskValueDelivered ==
    /\ [](\A p \in Tasks : pc[p] = "resolved" =>
            result[p] = taskResult[p] /\ taskResult[p] = TaskValue)
    /\ [][\A p \in Tasks :
            pc[p] = "settled" /\ taskResult[p] = TaskValue /\ pc'[p] # "settled"
                => pc'[p] = "resolved" /\ result'[p] = taskResult[p]]_vars

\* C13 witness: one call has resolved with the value of its task, and the
\* task of a call that needed a retry to acquire has returned its value.
C13_Witness ==
    \E p, q \in Tasks :
        /\ pc[p] = "resolved" /\ result[p] = TaskValue
        /\ pc[q] = "settled" /\ attemptNumber[q] > 0 /\ taskResult[q] = TaskValue

\* C14 (as claimed): a submit call whose task failed rejects with the error
\* of the task, unchanged, with the flag of its instance cleared in that
\* step, and never goes back to acquiring.
C14_TaskErrorUnchanged ==
    /\ [][\A p \in Tasks :
            pc[p] \in {"acquired", "settled"} /\ pc'[p] = "rejected"
                => /\ result'[p] = TaskError
                   /\ taskResult'[p] = TaskError
                   /\ ~runningTask'[inst[p]]]_vars
    /\ [][\A p \in Tasks :
            pc[p] \in {"acquired", "running", "settled"} => pc'[p] # "waiting"]_vars

\* C15: the numOfAttempts of the policy of a call is the one the call passed,
\* and the default of the cluster when it passed none; the default never
\* changes, the policy of a call never changes while the call lasts, and a
\* failed attempt is the last one exactly when it is attempt numOfAttempts.
C15_PolicyOfTheCall ==
    /\ [][defaultBackoffOptions' = defaultBackoffOptions]_vars
    /\ [](\A p \in Tasks : pc[p] \notin {"idle", "resolved", "rejected"} =>
            numOfAttempts[p] = (IF backoffOptions[p] = NoOptions
                                THEN defaultBackoffOptions ELSE backoffOptions[p]))
    /\ [](\A s \in Calls : spc[s] = "waiting" =>
            snum[s] = (IF sbackoffOptions[s] = NoOptions
                       THEN defaultBackoffOptions ELSE sbackoffOptions[s]))
    /\ [][\A p \in Tasks :
            pc[p] # "idle" /\ pc'[p] \notin {"resolved", "rejected"}
                => /\ numOfAttempts'[p] = numOfAttempts[p]
                   /\ backoffOptions'[p] = backoffOptions[p]]_vars
    /\ [][\A p \in Tasks :
            attempted(p) /\ state = "ready" /\ pc'[p] \in {"waiting", "rejected"}
                => (pc'[p] = "rejected" <=> attemptNumber[p] + 1 = numOfAttempts[p])]_vars
    /\ [][\A s \in Calls :
            spc[s] = "waiting" /\ instancesInUse > 0
                   /\ <<spc[s], sattempt[s]>>' # <<spc[s], sattempt[s]>>
                => (spc'[s] = "fallback" <=> sattempt[s] + 1 = snum[s])]_vars

\* C15 witness: a call that passed its own policy and a later call that
\* passed none are both under way, the first under its own policy, the
\* second under the default.
C15_Witness ==
    \E p, q \in Tasks :
        /\ p < q
        /\ pc[p] = "waiting" /\ pc[q] = "waiting"
        /\ backoffOptions[p] # NoOptions
        /\ numOfAttempts[p] = backoffOptions[p]
        /\ numOfAttempts[p] # defaultBackoffOptions
        /\ backoffOptions[q] = NoOptions
        /\ numOfAttempts[q] = defaultBackoffOptions

\* A creation is started in this step by an attempt that found the cluster
\* 'ready', no free instance, and live instances plus creations in flight
\* under maxInstances.
admitted ==
    /\ created' = created + 1
    /\ state = "ready"
    /\ Len(freeInstances) = 0
    /\ Len(instances) + Cardinality(instancesBeingCreated) < maxInstances
    /\ \E p \in Tasks : attempted(p) /\ pc'[p] = "creating"

\* C16 (as claimed): an eager cluster starts with maxInstances creations in
\* flight and never starts another; a lazy cluster starts with none; every
\* later creation is started by an admitted attempt; the live set never
\* exceeds maxInstances.
C16_EagerCreatesOnce ==
    /\ created = (IF eagerInstances THEN maxInstances ELSE 0)
    /\ Cardinality(instancesBeingCreated) = created
    /\ instances = <<>>
    /\ [](eagerInstances => created = maxInstances)
    /\ [][created' # created => admitted]_vars
    /\ [](Len(instances) <= maxInstances)

\* C16 (amended): as claimed, but an eager cluster starts no further creation
\* only as long as no creation has failed.
C16_EagerCreatesOnceUnlessFailed ==
    /\ created = (IF eagerInstances THEN maxInstances ELSE 0)
    /\ Cardinality(instancesBeingCreated) = created
    /\ instances = <<>>
    /\ [](eagerInstances /\ factoryFailures = 0 => created = maxInstances)
    /\ [][created' # created => admitted]_vars
    /\ [](Len(instances) <= maxInstances)

\* C16 witness: an eager cluster is full with the instances of its first
\* creations; one call has run its task, the other was turned away for lack
\* of capacity instead of starting a creation.
C16_Witness ==
    /\ eagerInstances
    /\ factoryFailures = 0
    /\ created = maxInstances
    /\ Len(instances) = maxInstances
    /\ \E p, q \in Tasks :
        /\ pc[p] = "resolved"
        /\ pc[q] = "rejected" /\ result[q] = CapacityMsg

\* C17: once the state is not 'ready', a call that has not acquired never
\* acquires and never starts a creation: its next attempt rejects it with the
\* message of the state.
C17_WaitingRejectedAfterShutdown ==
    [][\A p \in Tasks : state # "ready" /\ pc[p] \in {"idle", "waiting"} =>
            /\ pc'[p] \in {"idle", "waiting", "rejected"}
            /\ attempted(p) =>
                /\ pc'[p] = "rejected"
                /\ result'[p] \in {ShuttingDownMsg, ShutdownMsg}
                /\ UNCHANGED <<instancesBeingCreated, runningTask>>]_vars

\* C17 witness: while the cluster shuts down, one call has been rejected and
\* another, which was retrying for lack of capacity, awaits its next attempt.
C17_Witness ==
    /\ state = "shutting down"
    /\ \E p, q \in Tasks :
        /\ pc[p] = "rejected" /\ result[p] = ShuttingDownMsg
        /\ pc[q] = "waiting" /\ attemptNumber[q] > 0

\* C18: an attempt that finds the cluster 'ready', no free instance and no
\* room for a creation fails; the call then waits for its next attempt, or,
\* when this was attempt numOfAttempts, rejects with the empty message of the
\* error; the attempt creates nothing, locks nothing and runs nothing.
C18_CapacityExhausted ==
    /\ [](\A p \in Tasks : pc[p] = "waiting" => attemptNumber[p] < numOfAttempts[p])
    /\ [][\A p \in Tasks :
            /\ attempted(p)
            /\ state = "ready"
            /\ Len(freeInstances) = 0
            /\ Len(instances) + Cardinality(instancesBeingCreated) >= maxInstances
            => /\ IF attemptNumber[p] + 1 = numOfAttempts[p]
                  THEN pc'[p] = "rejected" /\ result'[p] = CapacityMsg
                  ELSE pc'[p] = "waiting" /\ attemptNumber'[p] = attemptNumber[p] + 1
               /\ taskResult'[p] = "none"
               /\ running' = running
               /\ UNCHANGED <<instances, instancesBeingCreated, created, runningTask>>]_vars

\* C18 witness: a call was rejected with the empty message, its task never
\* run, while the only instances were busy.
C18_Witness ==
    /\ Len(instances) = maxInstances
    /\ Len(freeInstances) = 0
    /\ \E p \in Tasks :
        pc[p] = "rejected" /\ result[p] = CapacityMsg /\ taskResult[p] = "none"

\* C19 (as claimed): the flag of an instance is set exactly when a task that
\* has started and has not been released is bound to it.
C19_BusyIffRunning ==
    \A i \in DOMAIN runningTask :
        runningTask[i] <=> \E p \in Tasks : pc[p] \in {"running", "settled"} /\ inst[p] = i

\* C20: the policy of a call never holds the caller's predicate; an attempt
\* that fails on the lifecycle rejects the call at once; an attempt that
\* fails for lack of capacity or on the factory, and a shutdown attempt that
\* finds instances in use, is followed by another unless it was attempt
\* numOfAttempts.
C20_ClusterRetryPredicate ==
    /\ [](\A p \in Tasks : retryPredicate[p] \in {"none", "cluster"})
    /\ [](\A s \in Calls : sretry[s] \in {"none", "cluster"})
    /\ [][\A p \in Tasks : attempted(p) /\ state # "ready" => pc'[p] = "rejected"]_vars
    /\ [][\A p \in Tasks :
            \/ attempted(p) /\ state = "ready" /\ pc'[p] \in {"waiting", "rejected"}
            \/ pc[p] = "creating" /\ factoryFailures' # factoryFailures
                   /\ pc'[p] # "creating"
            => IF attemptNumber[p] + 1 < numOfAttempts[p]
               THEN pc'[p] = "waiting" /\ attemptNumber'[p] = attemptNumber[p] + 1
               ELSE pc'[p] = "rejected"]_vars
    /\ [][\A s \in Calls :
            spc[s] = "waiting" /\ instancesInUse > 0
                   /\ <<spc[s], sattempt[s]>>' # <<spc[s], sattempt[s]>>
            => IF sattempt[s] + 1 < snum[s]
               THEN spc'[s] = "waiting" /\ sattempt'[s] = sattempt[s] + 1
               ELSE spc'[s] = "fallback"]_vars

\* C20 witness: a call that has attempts left after a failure for lack of
\* capacity awaits its next attempt while the cluster shuts down, and the
\* graceful shutdown has been retried because an instance was in use.
C20_Witness ==
    /\ state = "shutting down"
    /\ \E p \in Tasks :
        pc[p] = "waiting" /\ attemptNumber[p] > 0 /\ retryPredicate[p] = "cluster"
    /\ \E s \in Calls : spc[s] = "waiting" /\ sattempt[s] > 0

\* C21 (as claimed): an instance chosen for a call, on the free-instance path
\* or on the creation path, is busy from the step in which it is chosen; the
\* instance an attempt chooses is free and bound to no other call.
C21_BusyWhenChosen ==
    /\ [](\A p \in Tasks : pc[p] = "acquired" => runningTask[inst[p]])
    /\ [][\A p \in Tasks : pc[p] = "waiting" /\ pc'[p] = "acquired" =>
            /\ ~runningTask[inst'[p]]
            /\ \A q \in Tasks \ {p} :
                pc[q] \in {"acquired", "running", "settled"} => inst[q] # inst'[p]]_vars

\* C22: a creation is started only by an admitted attempt, which registers
\* it in instancesBeingCreated in the same step; live instances plus the
\* creations that have not added their instance never exceed maxInstances.
C22_AdmissionAtomic ==
    /\ [][created' # created =>
            /\ admitted
            /\ instancesBeingCreated \subseteq instancesBeingCreated'
            /\ Cardinality(instancesBeingCreated') =
                    Cardinality(instancesBeingCreated) + 1]_vars
    /\ [](Len(instances) + Cardinality(instancesBeingCreated \ added) <= maxInstances)

\* C22 witness: on a lazy cluster one call awaits the creation that took the
\* last slot, and the attempt of another call was refused meanwhile.
C22_Witness ==
    /\ ~eagerInstances
    /\ Len(instances) + Cardinality(instancesBeingCreated) = maxInstances
    /\ created = maxInstances
    /\ \E p, q \in Tasks :
        /\ pc[p] = "creating"
        /\ pc[q] = "waiting" /\ attemptNumber[q] > 0

\* C23: every factory call has failed, or has its instance in the live set,
\* or is in flight; a failure removes one creation from the creations in
\* flight and leaves the live set and the flags alone; when every creation
\* has settled no creation is in flight.
C23_FailedCreationFreesSlot ==
    /\ [](created = factoryFailures + Len(instances)
                        + Cardinality(instancesBeingCreated \ added))
    /\ [](created = factoryFailures + Len(instances) /\ added = {}
            => instancesBeingCreated = {})
    /\ [][factoryFailures' # factoryFailures =>
            /\ instancesBeingCreated' \subseteq instancesBeingCreated
            /\ Cardinality(instancesBeingCreated') =
                    Cardinality(instancesBeingCreated) - 1
            /\ UNCHANGED <<instances, runningTask, added>>]_vars

\* C23 witness: after a failed creation another one was started, the cluster
\* is full and nothing is in flight.
C23_Witness ==
    /\ factoryFailures > 0
    /\ created = maxInstances + factoryFailures
    /\ Len(instances) = maxInstances
    /\ instancesBeingCreated = {}

\* C24 (as claimed): a call rejected by the failure of its creation is
\* rejected with the error of the factory itself.
C24_FactoryErrorUnchanged ==
    [][\A p \in Tasks :
        pc[p] = "creating" /\ pc'[p] = "rejected" => result'[p] = FactoryError]_vars

\* C24 (amended): the failure of a creation fails the attempt of the call
\* that awaits it, and of no other call; the call waits for its next attempt,
\* or, when this was attempt numOfAttempts, rejects with the message of the
\* factory's error.
C24_FactoryErrorMessage ==
    [][\A p \in Tasks :
        pc[p] = "creating" /\ factoryFailures' # factoryFailures
               /\ inst[p] \notin instancesBeingCreated' =>
            /\ IF attemptNumber[p] + 1 < numOfAttempts[p]
               THEN /\ pc'[p] = "waiting"
                    /\ attemptNumber'[p] = attemptNumber[p] + 1
                    /\ result'[p] = "none"
               ELSE /\ pc'[p] = "rejected"
                    /\ result'[p] = FactoryErrorMsg
            /\ \A q \in Tasks \ {p} : pc'[q] = pc[q] /\ result'[q] = result[q]]_vars

\* C24 witness: a call was rejected with the message of the factory's error,
\* its task never run.
C24_Witness ==
    \E p \in Tasks :
        pc[p] = "rejected" /\ result[p] = FactoryErrorMsg /\ taskResult[p] = "none"

\* C25 (as claimed): a forceful shutdown sequence, of shutdownNow() or of a
\* shutdown() whose policy gave up, ends only by resolving true, with the
\* state 'shutdown' and every instance shutdown settled, also when the
\* shutdown of an instance fails.
C25_ForcefulReachesTerminated ==
    \A s \in Calls :
        (skind[s] = "shutdownNow" \/ s \in exhausted) /\ spc[s] = "returned"
            => sresult[s] = "true" /\ state = "shutdown" /\ shutdownPending = {}

\* C26: a shutdown()/shutdownNow() call made while the state is not 'ready'
\* returns false and changes nothing else: state, live set, flags, creations
\* in flight, instance shutdowns and submit calls are as they were.
C26_RefusedCallChangesNothing ==
    [][\A s \in Calls : spc[s] = "idle" /\ spc'[s] # "idle" /\ state # "ready" =>
            /\ spc'[s] = "returned"
            /\ sresult'[s] = "false"
            /\ UNCHANGED <<state, instances, runningTask, instancesBeingCreated, added,
                           shutdownCount, shutdownPending, submitVars>>
            /\ \A c \in Calls \ {s} : spc'[c] = spc[c] /\ sattempt'[c] = sattempt[c]]_vars

\* C26 witness: a call was refused during the graceful drain of the first
\* call, which still waits; the task that keeps it waiting runs and no
\* instance has been shut down.
C26_Witness ==
    /\ state = "shutting down"
    /\ \E s \in Calls : skind[s] = "shutdown" /\ spc[s] = "waiting"
    /\ \E s \in Calls : sresult[s] = "false"
    /\ \E p \in Tasks : pc[p] = "running" /\ runningTask[inst[p]]
    /\ \A i \in DOMAIN shutdownCount : shutdownCount[i] = 0

\* C27: an attempt that finds the cluster 'ready' returns a free instance of
\* the live set when there is one, and calls no factory; otherwise starts a
\* creation when live instances plus creations in flight are under
\* maxInstances; otherwise fails for lack of capacity and creates nothing.
C27_AttemptInReady ==
    [][\A p \in Tasks : attempted(p) /\ state = "ready" =>
        LET free == {i \in SeqToSet(instances) : ~runningTask[i]}
            room == Len(instances) + Cardinality(instancesBeingCreated) < maxInstances
        IN  IF free # {}
            THEN /\ pc'[p] = "acquired"
                 /\ inst'[p] \in free
                 /\ UNCHANGED <<created, instancesBeingCreated>>
            ELSE IF room
            THEN /\ pc'[p] = "creating"
                 /\ created' = created + 1
                 /\ inst'[p] \in instancesBeingCreated' \ instancesBeingCreated
            ELSE /\ pc'[p] \in {"waiting", "rejected"}
                 /\ pc'[p] = "rejected" => result'[p] = CapacityMsg
                 /\ UNCHANGED <<created, instancesBeingCreated>>]_vars

\* C27 witness: a lazy cluster with room for a creation has handed the
\* instance an earlier call left free to a second call.
C27_Witness ==
    /\ ~eagerInstances
    /\ factoryFailures = 0
    /\ Len(instances) < maxInstances
    /\ created = Len(instances)
    /\ \E p, q \in Tasks : pc[p] = "acquired" /\ pc[q] = "resolved"

\* C30: while an instance shutdown is pending the state is 'shutting down';
\* the state becomes 'shutdown' only in a step that finds none pending; an
\* attempt made while one is pending is rejected with the message of
\* 'shutting down'.
C30_TerminatedAfterAllSettled ==
    /\ [](shutdownPending # {} => state = "shutting down")
    /\ [][state # "shutdown" /\ state' = "shutdown" => shutdownPending = {}]_vars
    /\ [][\A p \in Tasks : attempted(p) /\ shutdownPending # {} =>
            pc'[p] = "rejected" /\ result'[p] = ShuttingDownMsg]_vars

\* C30 witness: a call was rejected with the message of 'shutting down' while
\* the shutdown of an instance is still pending.
C30_Witness ==
    /\ shutdownPending # {}
    /\ \E s \in Calls : spc[s] = "performing"
    /\ \E p \in Tasks : pc[p] = "rejected" /\ result[p] = ShuttingDownMsg

\* C28: every submit call that was made is eventually resolved or rejected,
\* whatever the shutdown calls, and a failed attempt that is retried adds
\* exactly one to the number of attempts made.
C28_SubmitSettles ==
    /\ \A p \in Tasks : pc[p] # "idle" ~> pc[p] \in {"resolved", "rejected"}
    /\ [][\A p \in Tasks : attemptNumber'[p] # attemptNumber[p] =>
            \/ attemptNumber'[p] = attemptNumber[p] + 1 /\ pc'[p] = "waiting"
            \/ attemptNumber'[p] = 0 /\ pc'[p] \in {"resolved", "rejected"}]_vars

\* A waiter that has already retried is pending after shutdown was requested.
C28_Witness ==
    /\ state # "ready"
    /\ \E p \in Tasks : pc[p] = "waiting" /\ attemptNumber[p] > 0

\* C29 (as claimed): an accepted shutdown() call ends only by resolving true
\* with the state 'shutdown', also when the shutdown of an instance fails.
C29_GracefulReachesTerminated ==
    \A s \in Calls :
        skind[s] = "shutdown" /\ spc[s] = "returned" /\ sresult[s] # "false"
            => sresult[s] = "true" /\ state = "shutdown"

\* C31: while the state is 'ready' no instance has had shutdown invoked; no
\* step removes an instance from the live set or changes the order of those
\* in it; and shutdown is invoked only in a step that leaves the state not
\* 'ready'.
C31_NoShutdownWhileReady ==
    /\ [](state = "ready" =>
            /\ shutdownPending = {}
            /\ \A i \in DOMAIN shutdownCount : shutdownCount[i] = 0)
    /\ [][/\ Len(instances') >= Len(instances)
          /\ SubSeq(instances', 1, Len(instances)) = instances
          /\ (\E i \in DOMAIN shutdownCount : shutdownCount'[i] > shutdownCount[i])
                => state' # "ready"]_vars

\* C31 witness: in a 'ready' cluster whose factory was called once, a task
\* runs on the instance on which an earlier task ran to its end.
C31_Witness ==
    /\ state = "ready"
    /\ created = 1
    /\ instances = <<1>>
    /\ \E p, q \in Tasks :
        /\ pc[p] = "resolved" /\ result[p] = TaskValue
        /\ pc[q] = "running" /\ inst[q] = 1

\* C32: an attempt that returns an instance of the live set returns the
\* free instance that was added first: a free instance with no free instance
\* before it in the insertion order of the live set.
C32_FirstFreeInstance ==
    [][\A p \in Tasks : pc[p] = "waiting" /\ pc'[p] = "acquired" =>
            \E k \in 1..Len(instances) :
                /\ inst'[p] = instances[k]
                /\ isFree(instances[k])
                /\ \A j \in 1..(k - 1) : ~isFree(instances[j])]_vars

\* C32 witness: two instances are free, the one the factory was asked for
\* second was added first, and an attempt has returned that one.
C32_Witness ==
    /\ instances = <<2, 1>>
    /\ isFree(1) /\ isFree(2)
    /\ \E p \in Tasks : pc[p] = "acquired" /\ inst[p] = 2

\* C33 (as claimed): the first attempt of a shutdown() call that was accepted
\* while no instance was in use performs the instance shutdowns, and an
\* accepted shutdown()/shutdownNow() call returns nothing but true.
C33_IdleShutdownFirstAttempt ==
    /\ [][idleAtShutdown /\ ~idleAtShutdown' =>
            \E s \in Calls : spc[s] = "waiting" /\ spc'[s] = "performing"]_vars
    /\ [](\A s \in Calls : skind[s] # "none" /\ spc[s] = "returned" => sresult[s] = "true")

\* C34 (as claimed): the task function of a submit call is called, and its
\* instance locked, only while the state is 'ready'.
C34_NoTaskStartsAfterShutdown ==
    [][\A p \in Tasks : pc[p] = "acquired" /\ pc'[p] # "acquired" => state = "ready"]_vars

\* C35 (as claimed): in state 'shutdown' shutdown has been invoked on every
\* instance of the live set, and no step adds an instance to the live set.
C35_TerminatedPoolIsClosed ==
    /\ [](state = "shutdown" =>
            \A i \in SeqToSet(instances) : shutdownCount[i] >= 1)
    /\ [][state = "shutdown" => instances' = instances]_vars

\* C36: an attempt that fails, with a lifecycle error or for lack of
\* capacity, and is retried or given up, leaves the state, the live set, the
\* creations in flight and the flag of every instance as they were.
C36_FailedAttemptChangesNothing ==
    [][\A p \in Tasks :
            /\ pc[p] = "waiting"
            /\ \/ pc'[p] = "rejected"
               \/ pc'[p] = "waiting" /\ attemptNumber'[p] # attemptNumber[p]
            => UNCHANGED <<state, instances, instancesBeingCreated, added, runningTask,
                           created>>]_vars

\* C36 witness: one call was rejected for lack of capacity and another with
\* a lifecycle error, neither having run its task.
C36_Witness ==
    \E p, q \in Tasks :
        /\ pc[p] = "rejected" /\ result[p] = CapacityMsg /\ taskResult[p] = "none"
        /\ pc[q] = "rejected" /\ result[q] \in {ShuttingDownMsg, ShutdownMsg}
        /\ taskResult[q] = "none"

====
